---- MODULE Spec2Model ----
(***************************************************************************)
(* A model of mackerel.py: the rate-limit-aware fetcher make_api_request,  *)
(* the bounded concurrent mapper limit_concurrency, the exhaustive search  *)
(* longest_paths, filter_tube_graph, the letter masks of                   *)
(* string_to_bit_field and banned_string_filter, and the assembly of the   *)
(* graph by get_tube_graph inside the run of __main__.  Each component has *)
(* a specification of its own (SpecMapper, SpecFetch, SpecSearch,          *)
(* SpecFilter, SpecLetter, SpecAssemble); the variables of the components  *)
(* a specification does not run stay at their idle values.                 *)
(***************************************************************************)
EXTENDS Integers, Sequences, FiniteSets, TLC

VARIABLES
  \* limit_concurrency
  num_ops,            \* N: the number of awaitables the iterable aws holds
  concurrency_limit,  \* K
  aws_next,           \* the iterator aws: index of the next awaitable it hands out
  batch,              \* the current batch: the indices islice took
  op_state,           \* per awaitable: unstarted, scheduled, running, done, failed
  op_result,          \* per awaitable: its result once done
  lc_pc,              \* where the generator stands
  gathered,           \* the list asyncio.gather returned for the current batch
  yielded,            \* everything the generator has yielded so far
  \* make_api_request
  rq_args,            \* the call's arguments: endpoint and params
  rq_pc,              \* where the call stands
  url,                \* the url built before the loop
  params,             \* the merged query parameters built before the loop
  response,           \* the local variable response
  delay,              \* the local variable delay
  rq_log,             \* the call's history: requests, responses, sleeps
  rq_return,          \* the value returned to the caller
  \* longest_paths
  adjacencies,        \* the adjacency structure: station -> (station -> record)
  dict_order,         \* the iteration (insertion) order of the dictionaries
  lp_pc,              \* where the top-level call stands
  lp_stack,           \* the call stack: one frame per active invocation
  lp_result,          \* the list the top-level call returned
  \* filter_tube_graph
  tube_graph,         \* the argument tube_graph: stations and adjacencies
  ft_filter,          \* the argument filter: the stations it is true of
  ft_order,           \* the iteration (insertion) order of the dictionaries
  ft_pc,              \* where the call stands
  ft_todo,            \* what the running loop has still to go through
  ft_station_a_id,    \* the loop variable station_a_id
  ft_stations,        \* the local stations
  ft_adjacencies,     \* the local adjacencies
  ft_result,          \* the graph returned
  \* get_tube_station (after its fetch) and banned_string_filter
  bs_common_name,     \* station["commonName"] as fetched
  bs_banned_string,   \* the argument banned_string
  bs_station,         \* the TubeStation built from the name
  bs_pc,              \* where the two calls stand
  bs_result,          \* what banned_string_filter returned
  \* __main__, get_tube_graph, get_all_tube_station_adjacencies, get_all_tube_stations
  args,               \* the command line: force and no_create_cache
  cache_exists,       \* os.path.exists(args.cache_path)
  main_pc,            \* where the run stands
  mn_tube_graph,      \* the run's tube_graph: empty until it has one
  cache_written,      \* the run has written the cache file
  printed,            \* what the run has printed: header, journeys, stations
  tg_pc,              \* where get_tube_graph stands
  lines,              \* the line list fetched
  line_index,         \* the position of the loop over lines
  line_stations,      \* the stop sequence of the current line
  ls_i,               \* the loop variable i, counted from 1
  tg_adjacencies,     \* the local adjacencies: station -> (station -> record)
  tg_keys,            \* the insertion order of the keys of adjacencies
  tube_stations,      \* the local tube_stations
  st_next,            \* the iterator over the keys: index of the next id
  st_batch,           \* the station ids of the current batch
  st_started,         \* how many requests of the batch have been issued
  st_done,            \* how many requests of the batch have been answered
  tg_issued,          \* requests issued so far, per kind
  tg_open,            \* requests in flight, per kind
  api_stops,          \* the stop sequences the API has answered with, per line
  fetch_failed        \* a fetch has failed

mapper_vars == <<num_ops, concurrency_limit, aws_next, batch, op_state, op_result,
                 lc_pc, gathered, yielded>>
fetch_vars  == <<rq_args, rq_pc, url, params, response, delay, rq_log, rq_return>>
search_vars == <<adjacencies, dict_order, lp_pc, lp_stack, lp_result>>
filter_vars == <<tube_graph, ft_filter, ft_order, ft_pc, ft_todo, ft_station_a_id,
                 ft_stations, ft_adjacencies, ft_result>>
letter_vars == <<bs_common_name, bs_banned_string, bs_station, bs_pc, bs_result>>
assemble_vars == <<args, cache_exists, main_pc, mn_tube_graph, cache_written,
                  printed, tg_pc, lines, line_index, line_stations, ls_i,
                  tg_adjacencies, tg_keys, tube_stations, st_next, st_batch,
                  st_started, st_done, tg_issued, tg_open, api_stops,
                  fetch_failed>>
\* The variables of the components added after the first three.
rest_vars == <<filter_vars, letter_vars, assemble_vars>>
vars == <<mapper_vars, fetch_vars, search_vars, rest_vars>>

None == "None"
\* Python's None where the variable otherwise holds a decoded JSON value.
NoResponse == [json |-> "None"]

\* ------------------------------------------------------------------------
\* Bounds of the model.
MaxOps == 4       \* the longest iterable handed to limit_concurrency
MaxLimit == 3     \* the largest concurrency_limit
MaxRetries == 2   \* the most rate-limit responses the transport gives one call
MaxSeconds == 11  \* the longest wait the transport advises
MaxEdges == 4     \* the most adjacency records of a structure searched
MaxStrLen == 2    \* the longest station name and banned string
MaxLines == 2     \* the most lines of a line list, the long line apart
MaxStops == 4     \* the most stops those lines have between them

\* ------------------------------------------------------------------------
\* Sequence helpers.
Range(s) == {s[i] : i \in 1..Len(s)}

Min2(a, b) == IF a < b THEN a ELSE b

\* ------------------------------------------------------------------------
\* limit_concurrency(aws, concurrency_limit)
OpResults == {"r1", "r2"}

MapperIdle ==
  /\ num_ops = 0
  /\ concurrency_limit = 1
  /\ aws_next = 1
  /\ batch = <<>>
  /\ op_state = <<>>
  /\ op_result = <<>>
  /\ lc_pc = "idle"
  /\ gathered = <<>>
  /\ yielded = <<>>

\* aws = iter(aws): the generator is created over N awaitables, none started.
InitMapper ==
  /\ num_ops \in 0..MaxOps
  /\ concurrency_limit \in 1..MaxLimit
  /\ aws_next = 1
  /\ batch = <<>>
  /\ op_state = [i \in 1..num_ops |-> "unstarted"]
  /\ op_result = [i \in 1..num_ops |-> None]
  /\ lc_pc = "loop"
  /\ gathered = <<>>
  /\ yielded = <<>>

\* A slice one awaitable too long.
IsliceWide(next, limit) ==
  [j \in 1..Min2(limit + 1, num_ops - next + 1) |-> next + j - 1]

\* itertools.islice(aws, concurrency_limit): the next concurrency_limit
\* awaitables of the iterator, fewer when it runs out.
Islice(next, limit) ==
  [j \in 1..Min2(limit, num_ops - next + 1) |-> next + j - 1]

\* A wait that ends with the first awaitable done.
GatherFirstCompleted(b) == \E j \in 1..Len(b) : op_state[b[j]] = "done"

\* asyncio.gather(*batch) completes normally when every awaitable is done.
GatherComplete(b) == \A j \in 1..Len(b) : op_state[b[j]] = "done"

\* asyncio.gather raises as soon as one awaitable raised.
GatherRaised(b) == \E j \in 1..Len(b) : op_state[b[j]] = "failed"

\* The results in the reverse of the order of the arguments.
GatherResultsReversed(b) == [j \in 1..Len(b) |-> op_result[b[Len(b) + 1 - j]]]

\* The list gather returns: the results in the order of its arguments.
GatherResults(b) == [j \in 1..Len(b) |-> op_result[b[j]]]

\* batch = list(islice(...)); if not batch: break; else gather schedules a
\* task per awaitable and the generator suspends on the await.
LC_TakeBatch ==
  /\ lc_pc = "loop"
  /\ LET b == Islice(aws_next, concurrency_limit) IN
       /\ batch' = b
       /\ aws_next' = aws_next + Len(b)
       /\ IF b = <<>>
            THEN /\ lc_pc' = "done"
                 /\ op_state' = op_state
            ELSE /\ lc_pc' = "gather"
                 /\ op_state' = [i \in 1..num_ops |->
                                   IF i \in Range(b) THEN "scheduled" ELSE op_state[i]]
  /\ UNCHANGED <<num_ops, concurrency_limit, op_result, gathered, yielded, fetch_vars, search_vars, rest_vars>>

\* The event loop runs a scheduled task up to its first suspension.
OpStart(i) ==
  /\ op_state[i] = "scheduled"
  /\ op_state' = [op_state EXCEPT ![i] = "running"]
  /\ UNCHANGED <<num_ops, concurrency_limit, aws_next, batch, op_result, lc_pc,
                 gathered, yielded, fetch_vars, search_vars, rest_vars>>

\* A running awaitable returns r.
OpComplete(i, r) ==
  /\ op_state[i] = "running"
  /\ op_state' = [op_state EXCEPT ![i] = "done"]
  /\ op_result' = [op_result EXCEPT ![i] = r]
  /\ UNCHANGED <<num_ops, concurrency_limit, aws_next, batch, lc_pc, gathered, yielded, fetch_vars, search_vars, rest_vars>>

\* A running awaitable raises.
OpFail(i) ==
  /\ op_state[i] = "running"
  /\ op_state' = [op_state EXCEPT ![i] = "failed"]
  /\ UNCHANGED <<num_ops, concurrency_limit, aws_next, batch, op_result, lc_pc,
                 gathered, yielded, fetch_vars, search_vars, rest_vars>>

\* await asyncio.gather(*batch) returns; the for loop over its list begins.
LC_GatherDone ==
  /\ lc_pc = "gather"
  /\ ~GatherRaised(batch)
  /\ GatherComplete(batch)
  /\ gathered' = GatherResults(batch)
  /\ lc_pc' = "yield"
  /\ UNCHANGED <<num_ops, concurrency_limit, aws_next, batch, op_state, op_result, yielded, fetch_vars, search_vars, rest_vars>>

\* await asyncio.gather(*batch) raises: the exception leaves the generator,
\* which is finished; the batch's other tasks keep running.
LC_GatherRaise ==
  /\ lc_pc = "gather"
  /\ GatherRaised(batch)
  /\ lc_pc' = "raised"
  /\ UNCHANGED <<num_ops, concurrency_limit, aws_next, batch, op_state, op_result,
                 gathered, yielded, fetch_vars, search_vars, rest_vars>>

\* for result in ...: yield result.  After the last one the while loop goes round.
LC_Yield ==
  /\ lc_pc = "yield"
  /\ gathered # <<>>
  /\ yielded' = Append(yielded, Head(gathered))
  /\ gathered' = Tail(gathered)
  /\ lc_pc' = IF Tail(gathered) = <<>> THEN "loop" ELSE "yield"
  /\ UNCHANGED <<num_ops, concurrency_limit, aws_next, batch, op_state, op_result, fetch_vars, search_vars, rest_vars>>

NextMapper ==
  \/ LC_TakeBatch
  \/ \E i \in 1..num_ops : OpStart(i)
  \/ \E i \in 1..num_ops, r \in OpResults : OpComplete(i, r)
  \/ \E i \in 1..num_ops : OpFail(i)
  \/ LC_GatherDone
  \/ LC_GatherRaise
  \/ LC_Yield

\* ------------------------------------------------------------------------
\* Strings the code takes apart are sequences of one-character strings.
TryAgainIn == <<"T", "r", "y", " ", "a", "g", "a", "i", "n", " ", "i", "n", " ">>
Space == <<" ">>
Digits == <<"0", "1", "2", "3", "4", "5", "6", "7", "8", "9">>

\* str.find: the index of the first occurrence of sep in s, 0 when there is none.
Find(s, sep) ==
  LET hits == {i \in 1..(Len(s) - Len(sep) + 1) : SubSeq(s, i, i + Len(sep) - 1) = sep}
  IN IF hits = {} THEN 0 ELSE CHOOSE i \in hits : \A j \in hits : i <= j

\* str.split(sep): the list of the pieces between the occurrences of sep.
RECURSIVE Split(_, _)
Split(s, sep) ==
  LET i == Find(s, sep)
  IN IF i = 0 THEN <<s>>
     ELSE <<SubSeq(s, 1, i - 1)>> \o Split(SubSeq(s, i + Len(sep), Len(s)), sep)

DigitValue(c) == (CHOOSE i \in 1..10 : Digits[i] = c) - 1

IsDigits(s) == s # <<>> /\ \A i \in 1..Len(s) : s[i] \in Range(Digits)

RECURSIVE DigitsValue(_)
DigitsValue(s) ==
  IF s = <<>> THEN 0 ELSE 10 * DigitsValue(SubSeq(s, 1, Len(s) - 1)) + DigitValue(s[Len(s)])

\* int(s) for a token without white space: an optional sign and decimal digits.
IsInt(s) ==
  \/ IsDigits(s)
  \/ Len(s) > 1 /\ s[1] \in {"-", "+"} /\ IsDigits(Tail(s))

Int_(s) ==
  IF s[1] = "-" THEN 0 - DigitsValue(Tail(s))
  ELSE IF s[1] = "+" THEN DigitsValue(Tail(s))
  ELSE DigitsValue(s)

\* ------------------------------------------------------------------------
\* The transport: what session.get(...).json() may hand back.
RECURSIVE Decimal(_)
Decimal(n) == IF n < 10 THEN <<Digits[n + 1]>> ELSE Decimal(n \div 10) \o <<Digits[(n % 10) + 1]>>

AdvisedSeconds == {0, 1, MaxSeconds - 1, MaxSeconds}
MessagePrefixes == {<<>>, <<"R", "a", "t", "e", " ", "l", "i", "m", "i", "t", " ", "i", "s", " ", "e", "x", "c", "e", "e", "d", "e", "d", ".", " ">>}

RateLimitMessage(prefix, n) == prefix \o TryAgainIn \o Decimal(n) \o <<" ", "s", "e", "c", "o", "n", "d", "s", ".">>

JsonObject(f) == [json |-> "object", fields |-> f]
JsonArray(xs) == [json |-> "array", items |-> xs]
JsonString(x) == [json |-> "string", value |-> x]
JsonNull      == [json |-> "null"]

\* A rate-limit response advising n seconds.
RateLimited(prefix, n) ==
  JsonObject([statusCode |-> 429, message |-> RateLimitMessage(prefix, n)])

\* Rate-limit responses whose message the code cannot read.
MalformedRateLimited ==
  { JsonObject([statusCode |-> 429, message |-> <<"R", "a", "t", "e", " ", "l", "i", "m", "i", "t", " ", "i", "s", " ", "e", "x", "c", "e", "e", "d", "e", "d", ".">>]),
    JsonObject([statusCode |-> 429, message |-> TryAgainIn \o <<"a", " ", "m", "o", "m", "e", "n", "t">>]),
    JsonObject([statusCode |-> 429]) }

\* Responses that are not rate-limit responses.
NormalBodies ==
  { JsonObject([commonName |-> "Bank Underground Station"]),
    JsonObject([statusCode |-> 404, message |-> <<"N", "o", "t", " ", "f", "o", "u", "n", "d">>]),
    JsonArray(<<JsonString("statusCode")>>),
    JsonArray(<<JsonObject([id |-> "l1", name |-> "X"])>>) }

Is429(r) == r.json = "object" /\ "statusCode" \in DOMAIN r.fields /\ r.fields.statusCode = 429

RateLimitCount(log) ==
  Cardinality({i \in 1..Len(log) : log[i].ev = "response" /\ Is429(log[i].response)})

\* ------------------------------------------------------------------------
\* make_api_request(endpoint, params=None)
Endpoints == {"Line/Mode/tube", "StopPoint/940GZZLUBNK"}
ParamsArgs == {None, "empty", "app_id_override", "extra"}

ExplicitParams(p) ==
  CASE p = "app_id_override" -> [app_id |-> "other"]
    [] p = "extra"           -> [detail |-> "true"]
    [] OTHER                 -> <<>>

BaseParams == [app_id |-> "TFL_API_APP_ID", app_key |-> "TFL_API_KEY"]

\* {"app_id": ..., "app_key": ..., **(params or {})}
MergeParams(p) ==
  LET e == ExplicitParams(p)
  IN [k \in DOMAIN BaseParams \cup DOMAIN e |-> IF k \in DOMAIN e THEN e[k] ELSE BaseParams[k]]

FetchIdle ==
  /\ rq_args = [endpoint |-> None, params |-> None]
  /\ rq_pc = "idle"
  /\ url = <<>>
  /\ params = <<>>
  /\ response = NoResponse
  /\ delay = 0
  /\ rq_log = <<>>
  /\ rq_return = NoResponse

InitFetch ==
  /\ rq_args \in [endpoint : Endpoints, params : ParamsArgs]
  /\ rq_pc = "call"
  /\ url = <<>>
  /\ params = <<>>
  /\ response = NoResponse
  /\ delay = 0
  /\ rq_log = <<>>
  /\ rq_return = NoResponse

\* url = ...; params = {...}; response = None
RQ_Begin ==
  /\ rq_pc = "call"
  /\ url' = <<"https://api.tfl.gov.uk/", rq_args.endpoint>>
  /\ params' = MergeParams(rq_args.params)
  /\ response' = NoResponse
  /\ rq_pc' = "loop"
  /\ UNCHANGED <<rq_args, delay, rq_log, rq_return, mapper_vars, search_vars, rest_vars>>

\* while response is None: session.get(url, params=params)
RQ_Get ==
  /\ rq_pc = "loop"
  /\ response = NoResponse
  /\ rq_log' = Append(rq_log, [ev |-> "get", url |-> url, params |-> params])
  /\ rq_pc' = "await"
  /\ UNCHANGED <<rq_args, url, params, response, delay, rq_return, mapper_vars, search_vars, rest_vars>>

\* response = await response.json(), the transport answering r.
Receive(r, advised) ==
  /\ rq_pc = "await"
  /\ response' = IF r = JsonNull THEN NoResponse ELSE r
  /\ rq_log' = Append(rq_log, [ev |-> "response", response |-> r, advised |-> advised])
  /\ rq_pc' = "check"
  /\ UNCHANGED <<rq_args, url, params, delay, rq_return, mapper_vars, search_vars, rest_vars>>

RQ_ReceiveRateLimited ==
  /\ RateLimitCount(rq_log) < MaxRetries
  /\ \E prefix \in MessagePrefixes, n \in AdvisedSeconds : Receive(RateLimited(prefix, n), {n})

RQ_ReceiveMalformed ==
  /\ RateLimitCount(rq_log) < MaxRetries
  /\ \E r \in MalformedRateLimited : Receive(r, {})

RQ_ReceiveNormal == \E r \in NormalBodies \cup {JsonNull} : Receive(r, {})

\* The request or the parse of its body fails: the exception leaves the call.
RQ_TransportError ==
  /\ rq_pc = "await"
  /\ rq_pc' = "raised"
  /\ UNCHANGED <<rq_args, url, params, response, delay, rq_log, rq_return, mapper_vars, search_vars, rest_vars>>

\* "statusCode" in response: a key of a dict, an element of a list.
HasStatusCode(r) ==
  IF r.json = "object" THEN "statusCode" \in DOMAIN r.fields ELSE JsonString("statusCode") \in Range(r.items)

\* if "statusCode" in response and response["statusCode"] == 429
RateLimitSignal(r) == HasStatusCode(r) /\ r.json = "object" /\ r.fields.statusCode = 429

\* The first character after the marker only: ...split("Try again in ")[1][0]
DelayTokenFirstChar(message) == SubSeq(Split(message, TryAgainIn)[2], 1, 1)

\* response["message"].split("Try again in ")[1].split(" ")[0]
DelayToken(message) == Split(Split(message, TryAgainIn)[2], Space)[1]

\* The test of line 26 and, on a rate-limit response, the computation of delay.
RQ_Check ==
  /\ rq_pc = "check"
  /\ IF response = NoResponse
       THEN \* "statusCode" in None raises TypeError
            /\ rq_pc' = "raised"
            /\ delay' = delay
       ELSE IF ~RateLimitSignal(response)
       THEN /\ rq_pc' = "loop"
            /\ delay' = delay
       ELSE IF \/ "message" \notin DOMAIN response.fields
               \/ Len(Split(response.fields.message, TryAgainIn)) < 2
               \/ ~IsInt(DelayToken(response.fields.message))
       THEN \* KeyError, IndexError or ValueError
            /\ rq_pc' = "raised"
            /\ delay' = delay
       ELSE /\ rq_pc' = "sleep"
            /\ delay' = Int_(DelayToken(response.fields.message))
  /\ UNCHANGED <<rq_args, url, params, response, rq_log, rq_return, mapper_vars, search_vars, rest_vars>>

\* The sleep without the reset of response.
RQ_SleepKeepResponse ==
  /\ rq_pc = "sleep"
  /\ rq_log' = Append(rq_log, [ev |-> "sleep", seconds |-> delay])
  /\ rq_pc' = "loop"
  /\ UNCHANGED <<rq_args, url, params, response, delay, rq_return, mapper_vars, search_vars, rest_vars>>

\* await asyncio.sleep(delay); response = None
RQ_Sleep ==
  /\ rq_pc = "sleep"
  /\ rq_log' = Append(rq_log, [ev |-> "sleep", seconds |-> delay])
  /\ response' = NoResponse
  /\ rq_pc' = "loop"
  /\ UNCHANGED <<rq_args, url, params, delay, rq_return, mapper_vars, search_vars, rest_vars>>

\* The loop ends with response set: return response
RQ_Return ==
  /\ rq_pc = "loop"
  /\ response # NoResponse
  /\ rq_return' = response
  /\ rq_pc' = "returned"
  /\ UNCHANGED <<rq_args, url, params, response, delay, rq_log, mapper_vars, search_vars, rest_vars>>

NextFetch ==
  \/ RQ_Begin
  \/ RQ_Get
  \/ RQ_ReceiveRateLimited
  \/ RQ_ReceiveMalformed
  \/ RQ_ReceiveNormal
  \/ RQ_TransportError
  \/ RQ_Check
  \/ RQ_Sleep
  \/ RQ_Return

\* ------------------------------------------------------------------------
\* longest_paths(adjacencies, path=None)
Stations == {"A", "B", "C"}

TubeStationAdjacency(line, station_a_id, station_b_id) ==
  [line |-> line, station_a_id |-> station_a_id, station_b_id |-> station_b_id]

\* The structure with the keys ks and a record for every ordered pair of es.
AdjacencyStructure(ks, es) ==
  [a \in ks |-> [b \in {c \in Stations : <<a, c>> \in es} |-> TubeStationAdjacency("X", a, b)]]

Orderings(S) ==
  {p \in [1..Cardinality(S) -> S] : \A i, j \in DOMAIN p : i # j => p[i] # p[j]}

SearchIdle ==
  /\ adjacencies = <<>>
  /\ dict_order = <<>>
  /\ lp_pc = "idle"
  /\ lp_stack = <<>>
  /\ lp_result = <<>>

\* Any structure of at most MaxEdges records whose targets are keys.
InitSearch ==
  /\ \E es \in {x \in SUBSET (Stations \X Stations) : Cardinality(x) <= MaxEdges} :
       \E ks \in SUBSET Stations :
         /\ \A e \in es : e[1] \in ks /\ e[2] \in ks
         /\ adjacencies = AdjacencyStructure(ks, es)
  /\ dict_order \in Orderings(Stations)
  /\ lp_pc = "start"
  /\ lp_stack = <<>>
  /\ lp_result = <<>>

\* dict.values(): the values in the dictionary's iteration order.
Values(d) ==
  LET ks == SelectSeq(dict_order, LAMBDA k : k \in DOMAIN d)
  IN [i \in 1..Len(ks) |-> d[ks[i]]]

RECURSIVE Concat(_)
Concat(ss) == IF ss = <<>> THEN <<>> ELSE Head(ss) \o Concat(Tail(ss))

\* The adjacencies the two nested loops of the empty path go through.
AllAdjacencies ==
  LET inner == Values(adjacencies) IN Concat([i \in 1..Len(inner) |-> Values(inner[i])])

\* The adjacencies the loop of a nonempty path goes through.
Outgoing(path) == Values(adjacencies[path[Len(path)].station_b_id])

\* The state of an invocation at its entry: all_paths = [path], the loop ahead.
Frame(path) ==
  [path |-> path,
   all_paths |-> <<path>>,
   todo |-> IF Len(path) = 0 THEN AllAdjacencies ELSE Outgoing(path)]

\* An extension without any test.
MayExtendAlways(path, nxt) == TRUE

\* An extension that refuses a station the path has left, not a record it holds.
MayExtendNoRevisit(path, nxt) ==
  Len(path) = 0 \/ \A i \in 1..Len(path) : path[i].station_a_id # nxt.station_b_id

\* nxt not in path (the empty path's loop has no such test)
MayExtend(path, nxt) == Len(path) = 0 \/ nxt \notin Range(path)

\* max(map(len, all_paths))
MaxLen(paths) == CHOOSE n \in {Len(p) : p \in Range(paths)} : \A p \in Range(paths) : Len(p) <= n

\* The longest paths, the empty path left out.
LongestOfNonEmpty(paths) == SelectSeq(paths, LAMBDA x : Len(x) = MaxLen(paths) /\ Len(x) > 0)

\* max_length = max(map(len, all_paths)); filter(len(x) == max_length, all_paths)
LongestOf(paths) == SelectSeq(paths, LAMBDA x : Len(x) = MaxLen(paths))

Top == lp_stack[Len(lp_stack)]

\* longest_paths(filtered_graph.adjacencies): path = path or []
LP_Call ==
  /\ lp_pc = "start"
  /\ lp_stack' = <<Frame(<<>>)>>
  /\ lp_pc' = "run"
  /\ UNCHANGED <<adjacencies, dict_order, lp_result, mapper_vars, fetch_vars, rest_vars>>

\* The loop takes its next adjacency and recurses on the path extended by it.
LP_Extend ==
  /\ lp_pc = "run"
  /\ Top.todo # <<>>
  /\ MayExtend(Top.path, Head(Top.todo))
  /\ lp_stack' = Append([lp_stack EXCEPT ![Len(lp_stack)].todo = Tail(Top.todo)],
                        Frame(Append(Top.path, Head(Top.todo))))
  /\ UNCHANGED <<adjacencies, dict_order, lp_pc, lp_result, mapper_vars, fetch_vars, rest_vars>>

\* The loop takes its next adjacency, which is in the path already.
LP_Skip ==
  /\ lp_pc = "run"
  /\ Top.todo # <<>>
  /\ ~MayExtend(Top.path, Head(Top.todo))
  /\ lp_stack' = [lp_stack EXCEPT ![Len(lp_stack)].todo = Tail(Top.todo)]
  /\ UNCHANGED <<adjacencies, dict_order, lp_pc, lp_result, mapper_vars, fetch_vars, rest_vars>>

\* The loop is over: the invocation returns the longest of all_paths, which
\* its caller appends to its own all_paths.
LP_Return ==
  /\ lp_pc = "run"
  /\ Top.todo = <<>>
  /\ LET r == LongestOf(Top.all_paths)
         n == Len(lp_stack)
     IN IF n = 1
          THEN /\ lp_result' = r
               /\ lp_stack' = <<>>
               /\ lp_pc' = "done"
          ELSE /\ lp_result' = lp_result
               /\ lp_stack' = [SubSeq(lp_stack, 1, n - 1) EXCEPT
                                 ![n - 1].all_paths = lp_stack[n - 1].all_paths \o r]
               /\ lp_pc' = lp_pc
  /\ UNCHANGED <<adjacencies, dict_order, mapper_vars, fetch_vars, rest_vars>>

NextSearch ==
  \/ LP_Call
  \/ LP_Extend
  \/ LP_Skip
  \/ LP_Return


\* ------------------------------------------------------------------------
\* string_to_bit_field, get_tube_station (after its fetch), banned_string_filter
LowerLetters == <<"a", "b", "c", "d", "e", "f", "g", "h", "i", "j", "k", "l", "m", "n", "o", "p", "q", "r", "s", "t", "u", "v", "w", "x", "y", "z">>
UpperLetters == <<"A", "B", "C", "D", "E", "F", "G", "H", "I", "J", "K", "L", "M", "N", "O", "P", "Q", "R", "S", "T", "U", "V", "W", "X", "Y", "Z">>

\* str.lower(), for the characters of the model: the letters A-Z change.
LowerChar(c) ==
  IF c \in Range(UpperLetters)
    THEN LowerLetters[CHOOSE i \in 1..Len(UpperLetters) : UpperLetters[i] = c]
    ELSE c

Lower(string) == [i \in 1..Len(string) |-> LowerChar(string[i])]

\* A sum over the letters from..Len(LowerLetters) present: 1 << (char - ord('a')) each.
RECURSIVE BitsFrom(_, _)
BitsFrom(string, from) ==
  IF from > Len(LowerLetters) THEN 0
  ELSE (IF LowerLetters[from] \in Range(string) THEN 2 ^ (from - 1) ELSE 0)
       + BitsFrom(string, from + 1)

\* The bit field without the lower().
string_to_bit_field_as_is(string) == BitsFrom(string, 1)

\* string = string.lower(); for char in range(ord('a'), ord('z') + 1): ...
string_to_bit_field(string) == BitsFrom(Lower(string), 1)

\* a & b
RECURSIVE BitAnd(_, _)
BitAnd(a, b) ==
  IF a = 0 \/ b = 0 THEN 0
  ELSE (a % 2) * (b % 2) + 2 * BitAnd(a \div 2, b \div 2)

TubeStation(station_id, name, bit_field) ==
  [station_id |-> station_id, name |-> name, bit_field |-> bit_field]

UndergroundStation == <<" ", "U", "n", "d", "e", "r", "g", "r", "o", "u", "n", "d", " ", "S", "t", "a", "t", "i", "o", "n">>

\* str.replace(old, ""): the pieces between the occurrences of old, joined.
RECURSIVE Join(_)
Join(ss) == IF ss = <<>> THEN <<>> ELSE Head(ss) \o Join(Tail(ss))

Remove(string, old) == Join(Split(string, old))

\* Lines 70-72 of get_tube_station: the station built from the name fetched.
MakeStation(station_id, common_name) ==
  LET station_name == Remove(common_name, UndergroundStation)
  IN TubeStation(station_id, station_name, string_to_bit_field(station_name))

\* string_to_bit_field(banned_string) & tube_station.bit_field == 0
banned_string_filter(banned_string, tube_station) ==
  BitAnd(string_to_bit_field(banned_string), tube_station.bit_field) = 0

\* The characters strings are made of: letters of both cases and others.
Chars == {"a", "B", "z", "Z", " "}

Strings == UNION {[1..n -> Chars] : n \in 0..MaxStrLen}

NoStation == TubeStation(None, <<>>, 0)

LetterIdle ==
  /\ bs_common_name = <<>>
  /\ bs_banned_string = <<>>
  /\ bs_station = NoStation
  /\ bs_pc = "idle"
  /\ bs_result = TRUE

\* Any name, fetched with or without the suffix of the mode; any banned string.
InitLetter ==
  /\ \E name \in Strings : bs_common_name \in {name, name \o UndergroundStation}
  /\ bs_banned_string \in Strings
  /\ bs_station = NoStation
  /\ bs_pc = "fetched"
  /\ bs_result = TRUE

\* get_tube_station returns the station built from the name.
BS_MakeStation ==
  /\ bs_pc = "fetched"
  /\ bs_station' = MakeStation("id", bs_common_name)
  /\ bs_pc' = "station"
  /\ UNCHANGED <<bs_common_name, bs_banned_string, bs_result,
                 mapper_vars, fetch_vars, search_vars, filter_vars, assemble_vars>>

\* banned_string_filter(banned_string, tube_station)
BS_Filter ==
  /\ bs_pc = "station"
  /\ bs_result' = banned_string_filter(bs_banned_string, bs_station)
  /\ bs_pc' = "filtered"
  /\ UNCHANGED <<bs_common_name, bs_banned_string, bs_station,
                 mapper_vars, fetch_vars, search_vars, filter_vars, assemble_vars>>

NextLetter ==
  \/ BS_MakeStation
  \/ BS_Filter

\* ------------------------------------------------------------------------
\* filter_tube_graph(tube_graph, filter)
TubeGraph(stations, adjs) == [stations |-> stations, adjacencies |-> adjs]

\* The keys of the dictionary d in the iteration order.
KeysIn(order, d) == SelectSeq(order, LAMBDA k : k \in DOMAIN d)

\* dict.items(): the (key, value) pairs in the iteration order.
ItemsIn(order, d) ==
  LET ks == KeysIn(order, d) IN [i \in 1..Len(ks) |-> <<ks[i], d[ks[i]]>>]

\* d[k] = v
DictSet(d, k, v) == [x \in DOMAIN d \cup {k} |-> IF x = k THEN v ELSE d[x]]

FilterIdle ==
  /\ tube_graph = TubeGraph(<<>>, <<>>)
  /\ ft_filter = {}
  /\ ft_order = <<>>
  /\ ft_pc = "idle"
  /\ ft_todo = <<>>
  /\ ft_station_a_id = None
  /\ ft_stations = <<>>
  /\ ft_adjacencies = <<>>
  /\ ft_result = TubeGraph(<<>>, <<>>)

\* The names the API gives the stations of the model.
CommonName(id) ==
  CASE id = "A" -> <<"c", "a", "t">> \o UndergroundStation
    [] id = "B" -> <<"d", "o", "g">> \o UndergroundStation
    [] OTHER    -> <<"b", "e", "e">>

\* The station of an id, as get_tube_station builds it from the name fetched.
StationOf(id) == MakeStation(id, CommonName(id))

\* Any graph get_tube_graph may return, within MaxEdges records: a station for
\* every key of the adjacencies, every target a key.  Any filter.
InitFilter ==
  /\ \E es \in {x \in SUBSET (Stations \X Stations) : Cardinality(x) <= MaxEdges} :
       \E ks \in SUBSET Stations :
         /\ \A e \in es : e[1] \in ks /\ e[2] \in ks
         /\ tube_graph = TubeGraph([k \in ks |-> StationOf(k)], AdjacencyStructure(ks, es))
  /\ ft_filter \in SUBSET Stations
  /\ ft_order \in Orderings(Stations)
  /\ ft_pc = "call"
  /\ ft_todo = <<>>
  /\ ft_station_a_id = None
  /\ ft_stations = <<>>
  /\ ft_adjacencies = <<>>
  /\ ft_result = TubeGraph(<<>>, <<>>)

\* stations = {}; for station_id in tube_graph.stations:
FT_Begin ==
  /\ ft_pc = "call"
  /\ ft_stations' = <<>>
  /\ ft_todo' = KeysIn(ft_order, tube_graph.stations)
  /\ ft_pc' = "stations"
  /\ UNCHANGED <<tube_graph, ft_filter, ft_order, ft_station_a_id, ft_adjacencies, ft_result,
                 mapper_vars, fetch_vars, search_vars, letter_vars, assemble_vars>>

\* The filter taken the wrong way round.
PassesNegated(station) == station.station_id \notin ft_filter

\* filter(station)
Passes(station) == station.station_id \in ft_filter

\* A filter in place: a station that fails is deleted from the argument.
FT_TestStationInPlace ==
  /\ ft_pc = "stations"
  /\ ft_todo # <<>>
  /\ LET station_id == Head(ft_todo)
         station == tube_graph.stations[station_id]
     IN IF Passes(station)
          THEN /\ ft_stations' = DictSet(ft_stations, station_id, station)
               /\ tube_graph' = tube_graph
          ELSE /\ ft_stations' = ft_stations
               /\ tube_graph' = TubeGraph([k \in DOMAIN tube_graph.stations \ {station_id} |->
                                            tube_graph.stations[k]],
                                          tube_graph.adjacencies)
  /\ ft_todo' = Tail(ft_todo)
  /\ UNCHANGED <<ft_filter, ft_order, ft_pc, ft_station_a_id, ft_adjacencies,
                 ft_result, mapper_vars, fetch_vars, search_vars, letter_vars, assemble_vars>>

\* One round of the first loop: if filter(station): stations[station_id] = station
FT_TestStation ==
  /\ ft_pc = "stations"
  /\ ft_todo # <<>>
  /\ LET station_id == Head(ft_todo)
         station == tube_graph.stations[station_id]
     IN ft_stations' = IF Passes(station) THEN DictSet(ft_stations, station_id, station)
                                          ELSE ft_stations
  /\ ft_todo' = Tail(ft_todo)
  /\ UNCHANGED <<tube_graph, ft_filter, ft_order, ft_pc, ft_station_a_id, ft_adjacencies,
                 ft_result, mapper_vars, fetch_vars, search_vars, letter_vars, assemble_vars>>

\* The first loop is over: adjacencies = {}; for station_a_id in stations:
FT_BeginAdjacencies ==
  /\ ft_pc = "stations"
  /\ ft_todo = <<>>
  /\ ft_adjacencies' = <<>>
  /\ ft_todo' = KeysIn(ft_order, ft_stations)
  /\ ft_pc' = "outer"
  /\ UNCHANGED <<tube_graph, ft_filter, ft_order, ft_station_a_id, ft_stations, ft_result,
                 mapper_vars, fetch_vars, search_vars, letter_vars, assemble_vars>>

\* One round of the outer loop, up to its inner loop:
\* adjacencies[station_a_id] = {}; for ... in tube_graph.adjacencies[station_a_id].items():
FT_NextStation ==
  /\ ft_pc = "outer"
  /\ ft_todo # <<>>
  /\ ft_station_a_id' = Head(ft_todo)
  /\ ft_adjacencies' = DictSet(ft_adjacencies, Head(ft_todo), <<>>)
  /\ ft_todo' = <<Tail(ft_todo), ItemsIn(ft_order, tube_graph.adjacencies[Head(ft_todo)])>>
  /\ ft_pc' = "inner"
  /\ UNCHANGED <<tube_graph, ft_filter, ft_order, ft_stations, ft_result,
                 mapper_vars, fetch_vars, search_vars, letter_vars, assemble_vars>>

\* The test left out.
SurvivesAlways(station_b_id, stations) == TRUE

\* if station_b_id in stations
Survives(station_b_id, stations) == station_b_id \in DOMAIN stations

\* One round of the inner loop:
\* if station_b_id in stations: adjacencies[station_a_id][station_b_id] = adjacency
FT_CopyAdjacency ==
  /\ ft_pc = "inner"
  /\ ft_todo[2] # <<>>
  /\ LET station_b_id == Head(ft_todo[2])[1]
         adjacency == Head(ft_todo[2])[2]
     IN ft_adjacencies' =
          IF Survives(station_b_id, ft_stations)
            THEN DictSet(ft_adjacencies, ft_station_a_id,
                         DictSet(ft_adjacencies[ft_station_a_id], station_b_id, adjacency))
            ELSE ft_adjacencies
  /\ ft_todo' = <<ft_todo[1], Tail(ft_todo[2])>>
  /\ UNCHANGED <<tube_graph, ft_filter, ft_order, ft_pc, ft_station_a_id, ft_stations,
                 ft_result, mapper_vars, fetch_vars, search_vars, letter_vars, assemble_vars>>

\* The inner loop is over: the outer loop goes on.
FT_EndInner ==
  /\ ft_pc = "inner"
  /\ ft_todo[2] = <<>>
  /\ ft_todo' = ft_todo[1]
  /\ ft_pc' = "outer"
  /\ UNCHANGED <<tube_graph, ft_filter, ft_order, ft_station_a_id, ft_stations,
                 ft_adjacencies, ft_result, mapper_vars, fetch_vars, search_vars, letter_vars, assemble_vars>>

\* return TubeGraph(stations, adjacencies)
FT_Return ==
  /\ ft_pc = "outer"
  /\ ft_todo = <<>>
  /\ ft_result' = TubeGraph(ft_stations, ft_adjacencies)
  /\ ft_pc' = "returned"
  /\ UNCHANGED <<tube_graph, ft_filter, ft_order, ft_todo, ft_station_a_id, ft_stations,
                 ft_adjacencies, mapper_vars, fetch_vars, search_vars, letter_vars, assemble_vars>>

NextFilter ==
  \/ FT_Begin
  \/ FT_TestStation
  \/ FT_BeginAdjacencies
  \/ FT_NextStation
  \/ FT_CopyAdjacency
  \/ FT_EndInner
  \/ FT_Return

\* ------------------------------------------------------------------------
\* get_all_tube_station_adjacencies, get_all_tube_stations, get_tube_graph and
\* the part of __main__ around them
ConcurrencyLimit == 50

RequestKinds == {"lines", "stops", "station"}

\* The counter c with n added for the kind of request.
Count(c, kind, n) == [c EXCEPT ![kind] = @ + n]

\* What the API calls the lines: line["id"] and line["name"].
LineIds == <<"bakerloo", "central", "circle", "district">>
LineNames == <<"Bakerloo", "Central", "Circle", "District">>

Line(k) == [id |-> LineIds[k], name |-> LineNames[k]]

\* A line with more stops than one batch of station requests holds.
LongLine == [id |-> "long", name |-> "Long"]
LongStops == [j \in 1..ConcurrencyLimit + 2 |-> j]

\* The naptanIds of the stops of the other lines.
NaptanIds == 1..3

\* What the API may answer to Line/Mode/tube.
LineLists ==
  {[k \in 1..n |-> Line(k)] : n \in 0..Min2(MaxLines, Len(LineIds))} \cup {<<LongLine>>}

RECURSIVE TotalLen(_)
TotalLen(ss) == IF ss = <<>> THEN 0 ELSE Len(Head(ss)) + TotalLen(Tail(ss))

\* The stops the lines still to come may have between them.
StopsLeft(answered) == MaxStops - TotalLen(answered)

\* What the API may answer to Line/{line_id}/StopPoints.
StopSequences(line, left) ==
  IF line = LongLine THEN {LongStops}
  ELSE UNION {[1..n -> NaptanIds] : n \in 0..left}

\* What the API answers to StopPoint/{station_id}: the commonName.
ApiCommonName(station_id) == <<"S", "t", "o", "p">> \o UndergroundStation

\* What pickle.load gives: a graph cached by an earlier run.
CachedGraph == TubeGraph(<<>>, <<>>)

\* if a not in d: d[a] = {}; d[a][b] = TubeStationAdjacency(line_name, a, b);
\* a record already there is left as it is.
StoreRecordOnce(d, line_name, a, b) ==
  IF a \in DOMAIN d /\ b \in DOMAIN d[a] THEN d
  ELSE DictSet(d, a, DictSet(IF a \in DOMAIN d THEN d[a] ELSE <<>>, b,
                             TubeStationAdjacency(line_name, a, b)))

\* if a not in d: d[a] = {}; d[a][b] = TubeStationAdjacency(line_name, a, b)
StoreRecord(d, line_name, a, b) ==
  DictSet(d, a, DictSet(IF a \in DOMAIN d THEN d[a] ELSE <<>>, b,
                        TubeStationAdjacency(line_name, a, b)))

\* The insertion order of the keys once k has been used as a key.
KeysAfter(keys, k) == IF k \in Range(keys) THEN keys ELSE Append(keys, k)

\* An islice that takes everything left.
KeyBatchAll(keys, next, limit) == SubSeq(keys, next, Len(keys))

\* itertools.islice over map(get_tube_station, adjacencies.keys()): the next
\* limit station ids, fewer when the keys run out.
KeyBatch(keys, next, limit) == SubSeq(keys, next, Min2(Len(keys), next + limit - 1))

\* tube_stations[station_id] = tube_station for every result of the batch.
StoreStations(d, ids) ==
  [k \in DOMAIN d \cup Range(ids) |->
     IF k \in Range(ids) THEN MakeStation(k, ApiCommonName(k)) ELSE d[k]]

AssembleIdle ==
  /\ args = [force |-> FALSE, no_create_cache |-> FALSE]
  /\ cache_exists = FALSE
  /\ main_pc = "idle"
  /\ mn_tube_graph = <<>>
  /\ cache_written = FALSE
  /\ printed = {}
  /\ tg_pc = "idle"
  /\ lines = <<>>
  /\ line_index = 1
  /\ line_stations = <<>>
  /\ ls_i = 1
  /\ tg_adjacencies = <<>>
  /\ tg_keys = <<>>
  /\ tube_stations = <<>>
  /\ st_next = 1
  /\ st_batch = <<>>
  /\ st_started = 0
  /\ st_done = 0
  /\ tg_issued = [k \in RequestKinds |-> 0]
  /\ tg_open = [k \in RequestKinds |-> 0]
  /\ api_stops = <<>>
  /\ fetch_failed = FALSE

\* Line 171 has printed the header; any arguments, a cache file or none.
InitAssemble ==
  /\ args \in [force : BOOLEAN, no_create_cache : BOOLEAN]
  /\ cache_exists \in BOOLEAN
  /\ main_pc = "start"
  /\ mn_tube_graph = <<>>
  /\ cache_written = FALSE
  /\ printed = {"header"}
  /\ tg_pc = "idle"
  /\ lines = <<>>
  /\ line_index = 1
  /\ line_stations = <<>>
  /\ ls_i = 1
  /\ tg_adjacencies = <<>>
  /\ tg_keys = <<>>
  /\ tube_stations = <<>>
  /\ st_next = 1
  /\ st_batch = <<>>
  /\ st_started = 0
  /\ st_done = 0
  /\ tg_issued = [k \in RequestKinds |-> 0]
  /\ tg_open = [k \in RequestKinds |-> 0]
  /\ api_stops = <<>>
  /\ fetch_failed = FALSE

\* Lines 175-176, 117 and 95: without a usable cache the run assembles the graph;
\* the first thing get_all_tube_station_adjacencies does is request the line list.
MN_Fetch ==
  /\ main_pc = "start"
  /\ args.force \/ ~cache_exists
  /\ main_pc' = "fetching"
  /\ tg_pc' = "lines_request"
  /\ tg_issued' = Count(tg_issued, "lines", 1)
  /\ tg_open' = Count(tg_open, "lines", 1)
  /\ UNCHANGED <<args, cache_exists, mn_tube_graph, cache_written, printed,
                 lines, line_index, line_stations, ls_i, tg_adjacencies,
                 tg_keys, tube_stations, st_next, st_batch, st_started,
                 st_done, api_stops, fetch_failed,
                 mapper_vars, fetch_vars, search_vars, filter_vars, letter_vars>>

\* Lines 177-179: otherwise the graph is read from the cache file.
MN_Load ==
  /\ main_pc = "start"
  /\ ~(args.force \/ ~cache_exists)
  /\ main_pc' = "loaded"
  /\ mn_tube_graph' = <<CachedGraph>>
  /\ UNCHANGED <<args, cache_exists, cache_written, printed, tg_pc, lines,
                 line_index, line_stations, ls_i, tg_adjacencies, tg_keys,
                 tube_stations, st_next, st_batch, st_started, st_done,
                 tg_issued, tg_open, api_stops, fetch_failed,
                 mapper_vars, fetch_vars, search_vars, filter_vars, letter_vars>>

\* Lines 95-96: the line list arrives.
TG_Lines ==
  /\ tg_pc = "lines_request"
  /\ tg_pc' = "line_loop"
  /\ lines' \in LineLists
  /\ line_index' = 1
  /\ tg_adjacencies' = <<>>
  /\ tg_keys' = <<>>
  /\ tg_open' = Count(tg_open, "lines", -1)
  /\ UNCHANGED <<args, cache_exists, main_pc, mn_tube_graph, cache_written,
                 printed, line_stations, ls_i, tube_stations, st_next,
                 st_batch, st_started, st_done, tg_issued, api_stops,
                 fetch_failed,
                 mapper_vars, fetch_vars, search_vars, filter_vars, letter_vars>>

\* Line 95: make_api_request raises (no connection, a body that is not JSON).
TG_LinesRaise ==
  /\ tg_pc = "lines_request"
  /\ main_pc' = "aborted"
  /\ tg_pc' = "raised"
  /\ tg_open' = [k \in RequestKinds |-> 0]
  /\ fetch_failed' = TRUE
  /\ UNCHANGED <<args, cache_exists, mn_tube_graph, cache_written, printed,
                 lines, line_index, line_stations, ls_i, tg_adjacencies,
                 tg_keys, tube_stations, st_next, st_batch, st_started,
                 st_done, tg_issued, api_stops,
                 mapper_vars, fetch_vars, search_vars, filter_vars, letter_vars>>

\* Lines 95-99: the API answers with an error object; iterating it gives its keys,
\* and line["id"] of a key raises.
TG_LinesErrorBody ==
  /\ tg_pc = "lines_request"
  /\ main_pc' = "aborted"
  /\ tg_pc' = "raised"
  /\ tg_open' = [k \in RequestKinds |-> 0]
  /\ fetch_failed' = TRUE
  /\ UNCHANGED <<args, cache_exists, mn_tube_graph, cache_written, printed,
                 lines, line_index, line_stations, ls_i, tg_adjacencies,
                 tg_keys, tube_stations, st_next, st_batch, st_started,
                 st_done, tg_issued, api_stops,
                 mapper_vars, fetch_vars, search_vars, filter_vars, letter_vars>>

\* Lines 98-100: the next line's stop sequence is requested.
TG_NextLine ==
  /\ tg_pc = "line_loop"
  /\ line_index <= Len(lines)
  /\ tg_pc' = "stops_request"
  /\ tg_issued' = Count(tg_issued, "stops", 1)
  /\ tg_open' = Count(tg_open, "stops", 1)
  /\ UNCHANGED <<args, cache_exists, main_pc, mn_tube_graph, cache_written,
                 printed, lines, line_index, line_stations, ls_i,
                 tg_adjacencies, tg_keys, tube_stations, st_next, st_batch,
                 st_started, st_done, api_stops, fetch_failed,
                 mapper_vars, fetch_vars, search_vars, filter_vars, letter_vars>>

\* Line 100: the stop sequence of the line arrives.
TG_Stops ==
  /\ tg_pc = "stops_request"
  /\ tg_pc' = "pair_loop"
  /\ line_stations' \in StopSequences(lines[line_index], StopsLeft(api_stops))
  /\ ls_i' = 1
  /\ tg_open' = Count(tg_open, "stops", -1)
  /\ api_stops' = Append(api_stops, line_stations')
  /\ UNCHANGED <<args, cache_exists, main_pc, mn_tube_graph, cache_written,
                 printed, lines, line_index, tg_adjacencies, tg_keys,
                 tube_stations, st_next, st_batch, st_started, st_done,
                 tg_issued, fetch_failed,
                 mapper_vars, fetch_vars, search_vars, filter_vars, letter_vars>>

\* Line 100: make_api_request raises.
TG_StopsRaise ==
  /\ tg_pc = "stops_request"
  /\ main_pc' = "aborted"
  /\ tg_pc' = "raised"
  /\ tg_open' = [k \in RequestKinds |-> 0]
  /\ fetch_failed' = TRUE
  /\ UNCHANGED <<args, cache_exists, mn_tube_graph, cache_written, printed,
                 lines, line_index, line_stations, ls_i, tg_adjacencies,
                 tg_keys, tube_stations, st_next, st_batch, st_started,
                 st_done, tg_issued, api_stops,
                 mapper_vars, fetch_vars, search_vars, filter_vars, letter_vars>>

\* Lines 100-102: the API answers with an error object, which has several keys;
\* line_stations[0] of it raises.
TG_StopsErrorBody ==
  /\ tg_pc = "stops_request"
  /\ main_pc' = "aborted"
  /\ tg_pc' = "raised"
  /\ tg_open' = [k \in RequestKinds |-> 0]
  /\ fetch_failed' = TRUE
  /\ UNCHANGED <<args, cache_exists, mn_tube_graph, cache_written, printed,
                 lines, line_index, line_stations, ls_i, tg_adjacencies,
                 tg_keys, tube_stations, st_next, st_batch, st_started,
                 st_done, tg_issued, api_stops,
                 mapper_vars, fetch_vars, search_vars, filter_vars, letter_vars>>

\* One round of the loop that stores the record of one direction only.
TG_PairOneWay ==
  LET station_a_id == line_stations[ls_i]
      station_b_id == line_stations[ls_i + 1]
      line_name == lines[line_index].name
  IN
    /\ tg_pc = "pair_loop"
    /\ ls_i <= Len(line_stations) - 1
    /\ ls_i' = ls_i + 1
    /\ tg_adjacencies' = StoreRecord(tg_adjacencies, line_name, station_a_id, station_b_id)
    /\ tg_keys' = KeysAfter(tg_keys, station_a_id)
    /\ UNCHANGED <<args, cache_exists, main_pc, mn_tube_graph, cache_written,
                   printed, tg_pc, lines, line_index, line_stations,
                   tube_stations, st_next, st_batch, st_started, st_done,
                   tg_issued, tg_open, api_stops, fetch_failed,
                   mapper_vars, fetch_vars, search_vars, filter_vars, letter_vars>>

\* Lines 101-110: one round of the loop over the consecutive stops; both records
\* are stored.
TG_Pair ==
  LET station_a_id == line_stations[ls_i]
      station_b_id == line_stations[ls_i + 1]
      line_name == lines[line_index].name
  IN
    /\ tg_pc = "pair_loop"
    /\ ls_i <= Len(line_stations) - 1
    /\ ls_i' = ls_i + 1
    /\ tg_adjacencies' = StoreRecord(StoreRecord(tg_adjacencies, line_name, station_a_id, station_b_id),
                   line_name, station_b_id, station_a_id)
    /\ tg_keys' = KeysAfter(KeysAfter(tg_keys, station_a_id), station_b_id)
    /\ UNCHANGED <<args, cache_exists, main_pc, mn_tube_graph, cache_written,
                   printed, tg_pc, lines, line_index, line_stations,
                   tube_stations, st_next, st_batch, st_started, st_done,
                   tg_issued, tg_open, api_stops, fetch_failed,
                   mapper_vars, fetch_vars, search_vars, filter_vars, letter_vars>>

\* Line 101: the stops of the line are used up.
TG_EndLine ==
  /\ tg_pc = "pair_loop"
  /\ ls_i > Len(line_stations) - 1
  /\ tg_pc' = "line_loop"
  /\ line_index' = line_index + 1
  /\ UNCHANGED <<args, cache_exists, main_pc, mn_tube_graph, cache_written,
                 printed, lines, line_stations, ls_i, tg_adjacencies,
                 tg_keys, tube_stations, st_next, st_batch, st_started,
                 st_done, tg_issued, tg_open, api_stops, fetch_failed,
                 mapper_vars, fetch_vars, search_vars, filter_vars, letter_vars>>

\* Lines 98, 114, 118 and 88: the lines are used up; the adjacencies are returned
\* and get_all_tube_stations begins.
TG_Adjacencies ==
  /\ tg_pc = "line_loop"
  /\ line_index > Len(lines)
  /\ tg_pc' = "stations"
  /\ tube_stations' = <<>>
  /\ st_next' = 1
  /\ UNCHANGED <<args, cache_exists, main_pc, mn_tube_graph, cache_written,
                 printed, lines, line_index, line_stations, ls_i,
                 tg_adjacencies, tg_keys, st_batch, st_started, st_done,
                 tg_issued, tg_open, api_stops, fetch_failed,
                 mapper_vars, fetch_vars, search_vars, filter_vars, letter_vars>>

\* Lines 77-80 and 90: the next batch of station ids is taken and gathered.
ST_TakeBatch ==
  /\ tg_pc = "stations"
  /\ KeyBatch(tg_keys, st_next, ConcurrencyLimit) # <<>>
  /\ tg_pc' = "gather"
  /\ st_next' = st_next + Len(KeyBatch(tg_keys, st_next, ConcurrencyLimit))
  /\ st_batch' = KeyBatch(tg_keys, st_next, ConcurrencyLimit)
  /\ st_started' = 0
  /\ st_done' = 0
  /\ UNCHANGED <<args, cache_exists, main_pc, mn_tube_graph, cache_written,
                 printed, lines, line_index, line_stations, ls_i,
                 tg_adjacencies, tg_keys, tube_stations, tg_issued, tg_open,
                 api_stops, fetch_failed,
                 mapper_vars, fetch_vars, search_vars, filter_vars, letter_vars>>

\* Line 69: a get_tube_station of the batch issues its request.
ST_Start ==
  /\ tg_pc = "gather"
  /\ st_started < Len(st_batch)
  /\ st_started' = st_started + 1
  /\ tg_issued' = Count(tg_issued, "station", 1)
  /\ tg_open' = Count(tg_open, "station", 1)
  /\ UNCHANGED <<args, cache_exists, main_pc, mn_tube_graph, cache_written,
                 printed, tg_pc, lines, line_index, line_stations, ls_i,
                 tg_adjacencies, tg_keys, tube_stations, st_next, st_batch,
                 st_done, api_stops, fetch_failed,
                 mapper_vars, fetch_vars, search_vars, filter_vars, letter_vars>>

\* Lines 69-72: a request of the batch is answered and its station built.
ST_Response ==
  /\ tg_pc = "gather"
  /\ st_done < st_started
  /\ st_done' = st_done + 1
  /\ tg_open' = Count(tg_open, "station", -1)
  /\ UNCHANGED <<args, cache_exists, main_pc, mn_tube_graph, cache_written,
                 printed, tg_pc, lines, line_index, line_stations, ls_i,
                 tg_adjacencies, tg_keys, tube_stations, st_next, st_batch,
                 st_started, tg_issued, api_stops, fetch_failed,
                 mapper_vars, fetch_vars, search_vars, filter_vars, letter_vars>>

\* A failure of a get_tube_station that the batch goes on after.
ST_RaiseSwallowed ==
  /\ tg_pc = "gather"
  /\ st_done < st_started
  /\ st_done' = st_done + 1
  /\ tg_open' = Count(tg_open, "station", -1)
  /\ fetch_failed' = TRUE
  /\ UNCHANGED <<args, cache_exists, main_pc, mn_tube_graph, cache_written,
                 printed, tg_pc, lines, line_index, line_stations, ls_i,
                 tg_adjacencies, tg_keys, tube_stations, st_next, st_batch,
                 st_started, tg_issued, api_stops,
                 mapper_vars, fetch_vars, search_vars, filter_vars, letter_vars>>

\* Lines 69, 80, 90, 118 and 176: make_api_request raises in a get_tube_station;
\* gather passes it on, and asyncio.run cancels what is still running.
ST_Raise ==
  /\ tg_pc = "gather"
  /\ st_done < st_started
  /\ main_pc' = "aborted"
  /\ tg_pc' = "raised"
  /\ tg_open' = [k \in RequestKinds |-> 0]
  /\ fetch_failed' = TRUE
  /\ UNCHANGED <<args, cache_exists, mn_tube_graph, cache_written, printed,
                 lines, line_index, line_stations, ls_i, tg_adjacencies,
                 tg_keys, tube_stations, st_next, st_batch, st_started,
                 st_done, tg_issued, api_stops,
                 mapper_vars, fetch_vars, search_vars, filter_vars, letter_vars>>

\* Lines 69-70: the API answers with an error object; station["commonName"]
\* raises.
ST_ErrorBody ==
  /\ tg_pc = "gather"
  /\ st_done < st_started
  /\ main_pc' = "aborted"
  /\ tg_pc' = "raised"
  /\ tg_open' = [k \in RequestKinds |-> 0]
  /\ fetch_failed' = TRUE
  /\ UNCHANGED <<args, cache_exists, mn_tube_graph, cache_written, printed,
                 lines, line_index, line_stations, ls_i, tg_adjacencies,
                 tg_keys, tube_stations, st_next, st_batch, st_started,
                 st_done, tg_issued, api_stops,
                 mapper_vars, fetch_vars, search_vars, filter_vars, letter_vars>>

\* Lines 80-81 and 90-91: every request of the batch is answered; the stations are
\* stored in the order of the batch.
ST_Gathered ==
  /\ tg_pc = "gather"
  /\ st_done = Len(st_batch)
  /\ tg_pc' = "stations"
  /\ tube_stations' = StoreStations(tube_stations, st_batch)
  /\ st_batch' = <<>>
  /\ UNCHANGED <<args, cache_exists, main_pc, mn_tube_graph, cache_written,
                 printed, lines, line_index, line_stations, ls_i,
                 tg_adjacencies, tg_keys, st_next, st_started, st_done,
                 tg_issued, tg_open, api_stops, fetch_failed,
                 mapper_vars, fetch_vars, search_vars, filter_vars, letter_vars>>

\* Lines 78-79, 92, 119 and 176: no id is left; the graph is returned to the run.
TG_Graph ==
  /\ tg_pc = "stations"
  /\ KeyBatch(tg_keys, st_next, ConcurrencyLimit) = <<>>
  /\ main_pc' = "loaded"
  /\ mn_tube_graph' = <<TubeGraph(tube_stations, tg_adjacencies)>>
  /\ tg_pc' = "returned"
  /\ UNCHANGED <<args, cache_exists, cache_written, printed, lines,
                 line_index, line_stations, ls_i, tg_adjacencies, tg_keys,
                 tube_stations, st_next, st_batch, st_started, st_done,
                 tg_issued, tg_open, api_stops, fetch_failed,
                 mapper_vars, fetch_vars, search_vars, filter_vars, letter_vars>>

\* Lines 181-183: the graph is written to the cache file unless told not to.
MN_Cache ==
  /\ main_pc = "loaded"
  /\ main_pc' = "cached"
  /\ cache_written' = ~args.no_create_cache
  /\ UNCHANGED <<args, cache_exists, mn_tube_graph, printed, tg_pc, lines,
                 line_index, line_stations, ls_i, tg_adjacencies, tg_keys,
                 tube_stations, st_next, st_batch, st_started, st_done,
                 tg_issued, tg_open, api_stops, fetch_failed,
                 mapper_vars, fetch_vars, search_vars, filter_vars, letter_vars>>

\* Lines 185-206: the graph is filtered and searched, and the journeys and the
\* stations are printed.
MN_Report ==
  /\ main_pc = "cached"
  /\ main_pc' = "done"
  /\ printed' = printed \cup {"journeys", "stations"}
  /\ UNCHANGED <<args, cache_exists, mn_tube_graph, cache_written, tg_pc,
                 lines, line_index, line_stations, ls_i, tg_adjacencies,
                 tg_keys, tube_stations, st_next, st_batch, st_started,
                 st_done, tg_issued, tg_open, api_stops, fetch_failed,
                 mapper_vars, fetch_vars, search_vars, filter_vars, letter_vars>>

NextAssemble ==
  \/ MN_Fetch
  \/ MN_Load
  \/ TG_Lines
  \/ TG_LinesRaise
  \/ TG_LinesErrorBody
  \/ TG_NextLine
  \/ TG_Stops
  \/ TG_StopsRaise
  \/ TG_StopsErrorBody
  \/ TG_Pair
  \/ TG_EndLine
  \/ TG_Adjacencies
  \/ ST_TakeBatch
  \/ ST_Start
  \/ ST_Response
  \/ ST_Raise
  \/ ST_ErrorBody
  \/ ST_Gathered
  \/ TG_Graph
  \/ MN_Cache
  \/ MN_Report

\* ------------------------------------------------------------------------
\* The specifications.
InitSpecMapper == InitMapper /\ FetchIdle /\ SearchIdle /\ FilterIdle /\ LetterIdle
  /\ AssembleIdle
SpecMapper == InitSpecMapper /\ [][NextMapper]_vars

InitSpecFetch == MapperIdle /\ InitFetch /\ SearchIdle /\ FilterIdle /\ LetterIdle
  /\ AssembleIdle
SpecFetch == InitSpecFetch /\ [][NextFetch]_vars

InitSpecSearch == MapperIdle /\ FetchIdle /\ InitSearch /\ FilterIdle /\ LetterIdle
  /\ AssembleIdle
SpecSearch == InitSpecSearch /\ [][NextSearch]_vars

\* The interpreter runs a call that has begun until it returns.
SpecSearchFair == SpecSearch /\ WF_vars(NextSearch)

InitSpecLetter == MapperIdle /\ FetchIdle /\ SearchIdle /\ FilterIdle /\ InitLetter
  /\ AssembleIdle
SpecLetter == InitSpecLetter /\ [][NextLetter]_vars

InitSpecAssemble ==
  MapperIdle /\ FetchIdle /\ SearchIdle /\ FilterIdle /\ LetterIdle /\ InitAssemble
SpecAssemble == InitSpecAssemble /\ [][NextAssemble]_vars

InitSpecFilter == MapperIdle /\ FetchIdle /\ SearchIdle /\ InitFilter /\ LetterIdle
  /\ AssembleIdle
SpecFilter == InitSpecFilter /\ [][NextFilter]_vars

\* ------------------------------------------------------------------------
\* Properties of limit_concurrency.

\* The awaitables gather has scheduled that have neither returned nor raised.
InFlight == {i \in 1..num_ops : op_state[i] \in {"scheduled", "running"}}

\* The batch the i-th awaitable belongs to, counting from 0.
BatchOf(i) == (i - 1) \div concurrency_limit

\* C1: at every point of every interleaving, the number of operations started
\* and not yet completed is at most the ceiling K.
C1_AtMostKInFlight == Cardinality(InFlight) <= concurrency_limit

\* A full batch of two or more is in flight, one of them running, more to come.
C1_Witness ==
  /\ concurrency_limit >= 2
  /\ num_ops > concurrency_limit
  /\ Cardinality(InFlight) = concurrency_limit
  /\ \E i \in InFlight : op_state[i] = "running"

\* C2: what has been yielded is always the results of the first operations in
\* input order, and a generator that finished normally has yielded exactly N
\* results, the i-th being the result of the i-th operation.
C2_ResultsInInputOrder ==
  /\ Len(yielded) <= num_ops
  /\ \A i \in 1..Len(yielded) : op_state[i] = "done" /\ yielded[i] = op_result[i]
  /\ lc_pc = "done" => Len(yielded) = num_ops

\* Three or more operations in batches of two, with results that differ, all yielded.
C2_Witness ==
  /\ lc_pc = "done"
  /\ concurrency_limit = 2
  /\ num_ops >= 3
  /\ yielded[1] # yielded[2]

\* C3: no operation of a later batch is started before every operation of each
\* earlier batch has completed, and no result of a batch is yielded before every
\* operation of that batch has completed.
C3_JoinOnBatch ==
  /\ \A i, j \in 1..num_ops :
       (BatchOf(i) < BatchOf(j) /\ op_state[j] # "unstarted") => op_state[i] = "done"
  /\ \A n \in 1..Len(yielded) : \A i \in 1..num_ops :
       BatchOf(i) = BatchOf(n) => op_state[i] = "done"

\* The second batch is running while the first batch's results are being yielded
\* no more: both were yielded, and a third operation runs.
C3_Witness ==
  /\ concurrency_limit = 2
  /\ num_ops >= 3
  /\ Len(yielded) = 2
  /\ op_state[3] = "running"

\* ------------------------------------------------------------------------
\* Properties of make_api_request.
Gets(log) == {i \in 1..Len(log) : log[i].ev = "get"}
Sleeps(log) == {i \in 1..Len(log) : log[i].ev = "sleep"}
RateLimits(log) == {i \in 1..Len(log) : log[i].ev = "response" /\ Is429(log[i].response)}

\* C4: a call that returns after k rate-limit responses and one normal response
\* has issued exactly k+1 requests and awaited exactly k delays, one after each
\* rate-limit response and before the next request, and returns the body of the
\* normal response.
C4_RetryPerRateLimit ==
  rq_pc = "returned" =>
    LET k == Cardinality(RateLimits(rq_log)) IN
      /\ Cardinality(Gets(rq_log)) = k + 1
      /\ Cardinality(Sleeps(rq_log)) = k
      /\ Len(rq_log) = 3 * k + 2
      /\ \A n \in 1..k :
           /\ rq_log[3 * n - 2].ev = "get"
           /\ 3 * n - 1 \in RateLimits(rq_log)
           /\ rq_log[3 * n].ev = "sleep"
      /\ rq_log[3 * k + 1].ev = "get"
      /\ rq_log[3 * k + 2].ev = "response"
      /\ rq_return = rq_log[3 * k + 2].response

\* A call returned after two rate-limit responses.
C4_Witness == rq_pc = "returned" /\ Cardinality(RateLimits(rq_log)) = 2

\* C5: a rate-limit response is never returned; whatever follows one is a sleep
\* of exactly the seconds its message advises and then a request with the url
\* and parameters of the first request.
C5_RateLimitNeverSurfaces ==
  /\ rq_pc = "returned" => ~Is429(rq_return)
  /\ rq_pc = "sleep" => /\ Len(rq_log) \in RateLimits(rq_log)
                        /\ rq_log[Len(rq_log)].advised = {delay}
  /\ \A i \in RateLimits(rq_log) :
       /\ rq_pc \in {"loop", "await", "returned"} => i < Len(rq_log)
       /\ i < Len(rq_log) => /\ rq_log[i + 1].ev = "sleep"
                             /\ rq_log[i].advised = {rq_log[i + 1].seconds}
       /\ i + 1 < Len(rq_log) => /\ rq_log[i + 2].ev = "get"
                                 /\ rq_log[i + 2] = rq_log[1]
  /\ rq_log # <<>> =>
       rq_log[1] = [ev |-> "get",
                    url |-> <<"https://api.tfl.gov.uk/", rq_args.endpoint>>,
                    params |-> MergeParams(rq_args.params)]

\* The retry after a rate-limit response that advised a two-digit wait was sent.
C5_Witness ==
  \E i \in RateLimits(rq_log) :
    /\ rq_log[i].advised = {MaxSeconds}
    /\ i + 1 < Len(rq_log)
    /\ rq_pc = "returned"

\* ------------------------------------------------------------------------
\* Properties of longest_paths.

\* Every adjacency record of the structure.
Records == UNION {Range(Values(adjacencies[a])) : a \in DOMAIN adjacencies}

\* A path: each adjacency starts where the previous one ends, none occurs twice.
IsPath(p) ==
  /\ \A i \in 1..(Len(p) - 1) : p[i + 1].station_a_id = p[i].station_b_id
  /\ \A i, j \in 1..Len(p) : i # j => p[i] # p[j]

AllPaths ==
  {p \in UNION {[1..n -> Records] : n \in 0..Cardinality(Records)} : IsPath(p)}

MaximalPaths == {p \in AllPaths : \A q \in AllPaths : Len(q) <= Len(p)}

NoDuplicates(s) == \A i, j \in 1..Len(s) : i # j => s[i] # s[j]

\* C6: the list returned holds exactly the paths of maximum length.
C6_ExactlyTheLongestPaths ==
  lp_pc = "done" => Range(lp_result) = MaximalPaths

\* A longest path that comes back to a station it has left.
C6_Witness ==
  /\ lp_pc = "done"
  /\ \E p \in Range(lp_result) : Len(p) = 3 /\ p[3].station_a_id = p[1].station_a_id

Adj(a, b) == TubeStationAdjacency("X", a, b)

LineABC ==
  AdjacencyStructure({"A", "B", "C"},
                     {<<"A", "B">>, <<"B", "A">>, <<"B", "C">>, <<"C", "B">>})

\* C7, as claimed: on the line A-B-C the paths returned have length 2.
C7_Original ==
  (lp_pc = "done" /\ adjacencies = LineABC) =>
    \A p \in Range(lp_result) : Len(p) = 2

\* C7, amended: on the line A-B-C the four paths returned have length 4; each
\* walks the line to one end and back to the other, using every record once.
C7_LineABCLength4 ==
  (lp_pc = "done" /\ adjacencies = LineABC) =>
    /\ Len(lp_result) = 4
    /\ Range(lp_result) =
         { <<Adj("A", "B"), Adj("B", "C"), Adj("C", "B"), Adj("B", "A")>>,
           <<Adj("C", "B"), Adj("B", "A"), Adj("A", "B"), Adj("B", "C")>>,
           <<Adj("B", "A"), Adj("A", "B"), Adj("B", "C"), Adj("C", "B")>>,
           <<Adj("B", "C"), Adj("C", "B"), Adj("B", "A"), Adj("A", "B")>> }
    /\ \A p \in Range(lp_result) : NoDuplicates(p)

C7_Witness == lp_pc = "done" /\ adjacencies = LineABC

PairBC == AdjacencyStructure({"B", "C"}, {<<"B", "C">>, <<"C", "B">>})

\* C8, as claimed: on the pair B<->C two paths are returned, each of length 1.
C8_Original ==
  (lp_pc = "done" /\ adjacencies = PairBC) =>
    /\ Len(lp_result) = 2
    /\ \A p \in Range(lp_result) : Len(p) = 1

\* C8, amended: on the pair B<->C two paths are returned, each of length 2:
\* there and back, starting from either station.
C8_PairLength2 ==
  (lp_pc = "done" /\ adjacencies = PairBC) =>
    /\ Len(lp_result) = 2
    /\ Range(lp_result) = { <<Adj("B", "C"), Adj("C", "B")>>,
                            <<Adj("C", "B"), Adj("B", "C")>> }

C8_Witness == lp_pc = "done" /\ adjacencies = PairBC

\* C9: on a structure without adjacency records the result is the one empty
\* path, and the result is never the empty list.
C9_EdgelessGivesEmptyPath ==
  lp_pc = "done" =>
    /\ Records = {} => lp_result = << <<>> >>
    /\ lp_result # <<>>

\* Stations, none with an adjacency.
C9_Witness ==
  /\ lp_pc = "done"
  /\ DOMAIN adjacencies # {}
  /\ Records = {}

\* Every invocation on the stack extends its caller's path by one adjacency,
\* and no path is longer than the number of records.
DepthBounded ==
  /\ \A i \in 1..Len(lp_stack) : Len(lp_stack[i].path) = i - 1
  /\ \A i \in 1..Len(lp_stack) : Len(lp_stack[i].path) <= Cardinality(Records)

\* C10: the search terminates, each recursive extension lengthening the path by
\* one and no path explored being longer than the number of records.
C10_Terminates == [](DepthBounded) /\ <>(lp_pc = "done")

\* A search that went as deep as there are records, three or more, and returned.
C10_Witness ==
  /\ lp_pc = "done"
  /\ Cardinality(Records) >= 3
  /\ \E p \in Range(lp_result) : Len(p) = Cardinality(Records)

\* ------------------------------------------------------------------------
\* Properties of filter_tube_graph.

\* The adjacency records of a graph, whatever keys they are stored under.
RecordsOf(g) ==
  UNION {{g.adjacencies[a][b] : b \in DOMAIN g.adjacencies[a]} : a \in DOMAIN g.adjacencies}

\* C11: the graph returned holds exactly the stations the filter is true of, and
\* every adjacency it holds has its source and its target among them.
C11_NoDanglingEndpoint ==
  ft_pc = "returned" =>
    /\ DOMAIN ft_result.stations = {k \in DOMAIN tube_graph.stations : k \in ft_filter}
    /\ \A k \in DOMAIN ft_result.stations : ft_result.stations[k] = tube_graph.stations[k]
    /\ DOMAIN ft_result.adjacencies \subseteq DOMAIN ft_result.stations
    /\ \A a \in DOMAIN ft_result.adjacencies :
         DOMAIN ft_result.adjacencies[a] \subseteq DOMAIN ft_result.stations
    /\ \A r \in RecordsOf(ft_result) :
         /\ r.station_a_id \in DOMAIN ft_result.stations
         /\ r.station_b_id \in DOMAIN ft_result.stations

\* A station that survives has lost an adjacency to one that does not, and kept another.
C11_Witness ==
  /\ ft_pc = "returned"
  /\ \E a \in DOMAIN ft_result.stations :
       /\ \E b \in DOMAIN tube_graph.adjacencies[a] : b \notin ft_filter
       /\ \E b \in DOMAIN ft_result.adjacencies[a] : b # a

\* C12: no step of the call changes the graph it was given.
C12_InputUnchanged == [][tube_graph' = tube_graph]_vars

\* A call that returned less than it was given: stations and adjacencies dropped.
C12_Witness ==
  /\ ft_pc = "returned"
  /\ DOMAIN ft_result.stations # DOMAIN tube_graph.stations
  /\ DOMAIN ft_result.stations # {}
  /\ RecordsOf(ft_result) # RecordsOf(tube_graph)

\* C13: under the always-true filter the graph returned has the stations and the
\* adjacencies of the argument; under the always-false filter both are empty.
C13_TrueAndFalseFilters ==
  ft_pc = "returned" =>
    /\ ft_filter = Stations =>
         /\ ft_result.stations = tube_graph.stations
         /\ ft_result.adjacencies = tube_graph.adjacencies
    /\ ft_filter = {} =>
         /\ DOMAIN ft_result.stations = {}
         /\ DOMAIN ft_result.adjacencies = {}

\* The always-true filter over a graph of three stations and some adjacencies.
C13_Witness ==
  /\ ft_pc = "returned"
  /\ ft_filter = Stations
  /\ DOMAIN tube_graph.stations = Stations
  /\ Cardinality(RecordsOf(tube_graph)) >= 3

\* ------------------------------------------------------------------------
\* Properties of banned_string_filter.

\* The i-th letter occurs in the string, in either case.
HasLetter(string, i) ==
  LowerLetters[i] \in Range(string) \/ UpperLetters[i] \in Range(string)

\* C18: banned_string_filter returns false iff some letter a-z occurs, in either
\* case, both in the banned string and in the station's name, whose bit_field has
\* bit i set iff letter i occurs in the name; other characters change nothing.
C18_FalseIffSharedLetter ==
  /\ bs_pc \in {"station", "filtered"} =>
       /\ bs_station.name \in {bs_common_name,
                               SubSeq(bs_common_name, 1, Len(bs_common_name) - Len(UndergroundStation))}
       /\ \A i \in 1..Len(LowerLetters) :
            ((bs_station.bit_field \div 2 ^ (i - 1)) % 2 = 1) <=> HasLetter(bs_station.name, i)
  /\ bs_pc = "filtered" =>
       (bs_result = FALSE <=>
          \E i \in 1..Len(LowerLetters) :
            HasLetter(bs_banned_string, i) /\ HasLetter(bs_station.name, i))

\* The banned string and the name share a letter in different cases only, and
\* the name came with the suffix.
C18_Witness ==
  /\ bs_pc = "filtered"
  /\ bs_result = FALSE
  /\ Range(bs_banned_string) \cap Range(bs_station.name) = {}
  /\ bs_station.name # bs_common_name

\* ------------------------------------------------------------------------
\* Properties of the graph assembly.

\* The rounds of the loop over consecutive stops that have run: <<k, j>> for the
\* stops j and j + 1 of the line k.
RoundsRun ==
  UNION {{<<k, j>> : j \in 1..(IF k < line_index THEN Len(api_stops[k]) - 1 ELSE ls_i - 1)} :
           k \in 1..Len(api_stops)}

\* The pairs of consecutive stops discovered so far.
ConnectionsFound == {<<api_stops[r[1]][r[2]], api_stops[r[1]][r[2] + 1]>> : r \in RoundsRun}

Holds(x, y) == x \in DOMAIN tg_adjacencies /\ y \in DOMAIN tg_adjacencies[x]

StationIds == DOMAIN tg_adjacencies \cup UNION {DOMAIN tg_adjacencies[x] : x \in DOMAIN tg_adjacencies}

AllRecords == UNION {{tg_adjacencies[x][y] : y \in DOMAIN tg_adjacencies[x]} : x \in DOMAIN tg_adjacencies}

\* C14: after every round of the construction loop, for every pair of consecutive
\* stops A, B found there are exactly two records of the connection, A->B under
\* the key A and B->A under the key B, and the mapping holds X->Y iff it holds
\* Y->X.
C14_TwoRecordsPerConnection ==
  /\ \A c \in ConnectionsFound :
       /\ Holds(c[1], c[2]) /\ Holds(c[2], c[1])
       /\ tg_adjacencies[c[1]][c[2]] = TubeStationAdjacency(tg_adjacencies[c[1]][c[2]].line, c[1], c[2])
       /\ tg_adjacencies[c[2]][c[1]] = TubeStationAdjacency(tg_adjacencies[c[2]][c[1]].line, c[2], c[1])
       /\ Cardinality({tg_adjacencies[c[1]][c[2]], tg_adjacencies[c[2]][c[1]]}) = 2
  /\ \A x \in DOMAIN tg_adjacencies : \A y \in DOMAIN tg_adjacencies[x] : Holds(y, x)

\* C15: no record built by get_all_tube_station_adjacencies is a self-loop,
\* whatever lines and stop sequences the API answers with.
C15_NoSelfLoop == \A r \in AllRecords : r.station_a_id # r.station_b_id
\* C16: in the graph get_tube_graph returns, both ends of every adjacency are keys
\* of the station mapping, and a station was fetched for every station id that
\* appears in any adjacency.
C16_EndpointsAreStations ==
  tg_pc = "returned" =>
    LET g == mn_tube_graph[1] IN
      /\ \A x \in DOMAIN g.adjacencies : \A y \in DOMAIN g.adjacencies[x] :
           LET r == g.adjacencies[x][y] IN
             /\ r.station_a_id \in DOMAIN g.stations
             /\ r.station_b_id \in DOMAIN g.stations
             /\ g.stations[r.station_a_id].station_id = r.station_a_id
             /\ g.stations[r.station_b_id].station_id = r.station_b_id
      /\ DOMAIN g.stations = StationIds
      /\ tg_issued["station"] = Cardinality(StationIds)

\* A graph of three stations, one of them a target before it is a source.
C16_Witness ==
  /\ tg_pc = "returned"
  /\ Cardinality(DOMAIN mn_tube_graph[1].stations) = 3
  /\ api_stops = <<<<1, 2, 3>>>>

\* C17: once a fetch has failed (the line list, a stop sequence, a station of any
\* batch) the failure has reached the caller: the run is aborted, holds no graph,
\* has not written the cache and has printed neither journeys nor stations.
C17_FailureAborts ==
  fetch_failed =>
    /\ tg_pc = "raised"
    /\ main_pc = "aborted"
    /\ mn_tube_graph = <<>>
    /\ ~cache_written
    /\ printed \cap {"journeys", "stations"} = {}

\* A station request of the second batch has failed, in a run that would have
\* written the cache.
C17_Witness ==
  /\ fetch_failed
  /\ main_pc = "aborted"
  /\ tg_issued["station"] > ConcurrencyLimit
  /\ ~args.no_create_cache

\* The lines on which x and y are consecutive stops, in either order.
LinesWith(x, y) ==
  {k \in 1..Len(api_stops) :
     \E j \in 1..(Len(api_stops[k]) - 1) :
       <<api_stops[k][j], api_stops[k][j + 1]>> \in {<<x, y>>, <<y, x>>}}

Last(S) == CHOOSE k \in S : \A m \in S : m <= k

\* C19: after get_all_tube_station_adjacencies there is at most one record per
\* ordered pair of stations, and its line is the last line, in the order of the
\* line list, on which the two are consecutive stops; so for both directions.
C19_LastLineWins ==
  tg_pc \in {"stations", "gather", "returned"} =>
    /\ Cardinality(AllRecords) =
         Cardinality({<<r.station_a_id, r.station_b_id>> : r \in AllRecords})
    /\ \A x \in DOMAIN tg_adjacencies : \A y \in DOMAIN tg_adjacencies[x] :
         LET ks == LinesWith(x, y) IN
           /\ ks # {}
           /\ tg_adjacencies[x][y] = TubeStationAdjacency(lines[Last(ks)].name, x, y)

\* Two stations are consecutive on two lines; both records name the second.
C19_Witness ==
  /\ tg_pc = "returned"
  /\ \E x, y \in NaptanIds :
       /\ x # y
       /\ LinesWith(x, y) = {1, 2}
       /\ Holds(x, y) /\ tg_adjacencies[x][y].line = LineNames[2]
       /\ Holds(y, x) /\ tg_adjacencies[y][x].line = LineNames[2]

\* C20: the line list is fetched first; the stop sequences are fetched one line
\* at a time, one request in flight at most; no station request is issued before
\* the stop sequence of every line is fetched; at most 50 station requests are
\* in flight.
C20_FetchPhases ==
  /\ (tg_issued["stops"] > 0 \/ tg_issued["station"] > 0) =>
       tg_issued["lines"] = 1 /\ tg_open["lines"] = 0
  /\ tg_open["lines"] + tg_open["stops"] <= 1
  /\ tg_open["stops"] = 1 =>
       tg_open["station"] = 0 /\ tg_issued["stops"] = Len(api_stops) + 1
  /\ tg_issued["stops"] <= Len(lines)
  /\ tg_issued["station"] > 0 =>
       /\ tg_open["stops"] = 0
       /\ tg_issued["stops"] = Len(lines)
       /\ Len(api_stops) = Len(lines)
  /\ tg_open["station"] <= 50

\* A full batch is in flight and station ids are left for another.
C20_Witness ==
  /\ tg_open["station"] = 50
  /\ st_next <= Len(tg_keys)

====
